---- MODULE Spec2Model ----
(***************************************************************************)
(* Model of git-custom-hash (src/src/main.rs): a vanity-hash search that   *)
(* rewrites the committer name of HEAD as hex(nonce) + "_" + name until    *)
(* the SHA-1 of the commit object satisfies a prefix and/or substring      *)
(* condition.  Text is modelled as a sequence of one-character strings,    *)
(* Option<T> as a sequence of length 0 (None) or 1 (Some).                 *)
(***************************************************************************)
EXTENDS Integers, Sequences, FiniteSets, TLC

(***************************************************************************)
(* Bounds of the model.                                                    *)
(***************************************************************************)
MaxThreads == 2       \* largest worker count that -j / num_cpus supplies
MaxClaims == 2        \* fetch_add calls served before the allocator is capped
DigestBytes == 1      \* digest length, in bytes, drawn for the Match Predicate
MaxRuns == 3          \* successive runs of the tool on one repository
MaxNonceDrawn == 17   \* largest nonce drawn for the pure functions
MaxNameLen == 4       \* longest committer name drawn for the sanitation

(***************************************************************************)
(* Option<T>.                                                              *)
(***************************************************************************)
None == <<>>
Some(x) == <<x>>
IsSome(o) == Len(o) = 1
Unwrap(o) == o[1]
unwrap_or(o, d) == IF IsSome(o) THEN o[1] ELSE d

SetMin(S) == CHOOSE x \in S : \A y \in S : x <= y
SetMax(S) == CHOOSE x \in S : \A y \in S : y <= x

(***************************************************************************)
(* Text primitives of the Rust standard library, as the code uses them.    *)
(***************************************************************************)
NUL == "\\0"
NL == "\n"

DecDigits == <<"0", "1", "2", "3", "4", "5", "6", "7", "8", "9">>
LowerHexDigits == <<"0", "1", "2", "3", "4", "5", "6", "7", "8", "9",
                    "a", "b", "c", "d", "e", "f">>
UpperHexLetters == {"A", "B", "C", "D", "E", "F"}

Range(s) == {s[k] : k \in 1..Len(s)}

\* char::is_digit(16)
is_digit_16(c) == c \in Range(LowerHexDigits) \cup UpperHexLetters

\* format!("{:x}", n) for an unsigned integer: lowercase, no padding
RECURSIVE format_x(_)
format_x(n) ==
    IF n < 16 THEN <<LowerHexDigits[n + 1]>>
    ELSE format_x(n \div 16) \o <<LowerHexDigits[(n % 16) + 1]>>

\* format!("{}", n) for an unsigned integer: decimal
RECURSIVE format_dec(_)
format_dec(n) ==
    IF n < 10 THEN <<DecDigits[n + 1]>>
    ELSE format_dec(n \div 10) \o <<DecDigits[(n % 10) + 1]>>

\* format!("{:x}", digest): every byte as two lowercase hex digits
RECURSIVE format_x_bytes(_)
format_x_bytes(bytes) ==
    IF bytes = <<>> THEN <<>>
    ELSE <<LowerHexDigits[(bytes[1] \div 16) + 1], LowerHexDigits[(bytes[1] % 16) + 1]>>
         \o format_x_bytes(Tail(bytes))

\* str::starts_with
starts_with(s, p) == Len(p) <= Len(s) /\ SubSeq(s, 1, Len(p)) = p

\* the byte offsets at which pat occurs in s
Occurrences(s, pat) ==
    {p \in 0..(Len(s) - Len(pat)) : SubSeq(s, p + 1, p + Len(pat)) = pat}

\* str::contains
contains(s, pat) == Occurrences(s, pat) # {}

\* the largest offset <= p at which pat occurs in s, searching downwards
RECURSIVE rfind_from(_, _, _)
rfind_from(s, pat, p) ==
    IF p < 0 THEN None
    ELSE IF SubSeq(s, p + 1, p + Len(pat)) = pat THEN Some(p)
    ELSE rfind_from(s, pat, p - 1)

\* a search that returns the first occurrence
rfind_first(s, pat) ==
    IF Occurrences(s, pat) = {} THEN None ELSE Some(SetMin(Occurrences(s, pat)))

\* str::rfind: byte offset of the last occurrence
rfind(s, pat) == rfind_from(s, pat, Len(s) - Len(pat))

\* str::replace: every non-overlapping occurrence, left to right
RECURSIVE replace(_, _, _)
replace(s, from, to) ==
    IF from = <<>>
    THEN IF s = <<>> THEN to ELSE to \o <<s[1]>> \o replace(Tail(s), from, to)
    ELSE IF Len(s) < Len(from) THEN s
    ELSE IF SubSeq(s, 1, Len(from)) = from
         THEN to \o replace(SubSeq(s, Len(from) + 1, Len(s)), from, to)
         ELSE <<s[1]>> \o replace(Tail(s), from, to)

(***************************************************************************)
(* Program constants.                                                      *)
(***************************************************************************)
Stride == 100             \* number.fetch_add(100, ..)
BlockTrials == 99         \* for i in 0..99
DefaultStartingNonce == 1 \* .unwrap_or(1)
EMPTY == 0                \* AtomicU64::new(0), the value the register is compared with

(***************************************************************************)
(* Literals of the program text.                                           *)
(***************************************************************************)
STR_commit == <<"c", "o", "m", "m", "i", "t", " ">>
STR_Unknown == <<"U", "n", "k", "n", "o", "w", "n">>
STR_NoRawBytes == <<"N", "o", " ", "R", "A", "W", " ", "b", "y", "t", "e", "s">>
FLAG_h == <<"-", "h">>
FLAG_m == <<"-", "m">>
FLAG_n == <<"-", "n">>
FLAG_j == <<"-", "j">>

(***************************************************************************)
(* is_valid_hex, get_argument_value and the two number parsers.            *)
(***************************************************************************)
is_valid_hex(value) == value # <<>> /\ \A k \in 1..Len(value) : is_digit_16(value[k])

get_argument_value(args, flag) ==
    IF \E k \in 1..Len(args) : args[k] = flag
    THEN LET index == SetMin({k \in 1..Len(args) : args[k] = flag})
         IN  IF index + 1 <= Len(args) THEN Some(args[index + 1]) ELSE None
    ELSE None

\* Option::filter(is_valid_hex)
filter_valid_hex(o) == IF IsSome(o) /\ is_valid_hex(Unwrap(o)) THEN o ELSE None

HexValue(c) ==
    IF c \in Range(LowerHexDigits)
    THEN (CHOOSE k \in 1..16 : LowerHexDigits[k] = c) - 1
    ELSE CASE c = "A" -> 10 [] c = "B" -> 11 [] c = "C" -> 12
           [] c = "D" -> 13 [] c = "E" -> 14 [] c = "F" -> 15

RECURSIVE DigitsValue(_, _)
DigitsValue(s, radix) ==
    IF s = <<>> THEN 0
    ELSE DigitsValue(SubSeq(s, 1, Len(s) - 1), radix) * radix + HexValue(s[Len(s)])

\* s without its leading zeros
RECURSIVE StripZeros(_)
StripZeros(s) == IF s # <<>> /\ s[1] = "0" THEN StripZeros(Tail(s)) ELSE s

\* the longest digit strings whose value always fits 64 bits
MaxDigits(radix) == IF radix = 16 THEN 16 ELSE 19

\* u64::from_str_radix(text, radix) / str::parse::<usize>(): Some(value) or None on Err
\* (an optional "+", then one or more digits of the radix, no overflow)
from_str_radix(text, radix) ==
    LET digits == IF text # <<>> /\ text[1] = "+" THEN Tail(text) ELSE text
    IN  IF digits # <<>>
           /\ \A k \in 1..Len(digits) : is_digit_16(digits[k]) /\ HexValue(digits[k]) < radix
           /\ Len(StripZeros(digits)) <= MaxDigits(radix)
        THEN Some(DigitsValue(digits, radix))
        ELSE None

(***************************************************************************)
(* Identity sanitation.                                                    *)
(***************************************************************************)
\* length of the longest all-hexadecimal prefix of s
RECURSIVE HexRunLen(_)
HexRunLen(s) ==
    IF s # <<>> /\ is_digit_16(s[1]) THEN 1 + HexRunLen(Tail(s)) ELSE 0

\* Regex ^[0-9a-fA-F]+_ replaced once by ""
sanitize_committer_name(committer_name) ==
    LET k == HexRunLen(committer_name)
    IN  IF k >= 1 /\ k < Len(committer_name) /\ committer_name[k + 1] = "_"
        THEN SubSeq(committer_name, k + 2, Len(committer_name))
        ELSE committer_name

sanitize_raw_header(raw_header, committer_name_raw, committer_name) ==
    replace(raw_header, committer_name_raw, committer_name)

(***************************************************************************)
(* Commit Encoder and Match Predicate (check_commit_with_nonce).           *)
(***************************************************************************)
\* format!("{:x}_", nonce) followed by the committer name
modified_committer(committer_name, nonce) ==
    format_x(nonce) \o <<"_">> \o committer_name

new_commit_header(raw_header, committer_name, nonce, pos) ==
    SubSeq(raw_header, 1, pos)
    \o modified_committer(committer_name, nonce)
    \o SubSeq(raw_header, pos + Len(committer_name) + 1, Len(raw_header))
    \o <<NL>>

raw_commit(raw_header, raw_message, committer_name, nonce, pos) ==
    new_commit_header(raw_header, committer_name, nonce, pos) \o raw_message

\* a preface that counts the null byte into the declared length
commit_preface_counts_nul(body) == STR_commit \o format_dec(Len(body) + 1) \o <<NUL>>

commit_preface(body) == STR_commit \o format_dec(Len(body)) \o <<NUL>>

\* the byte string that is hashed: None when the committer name is not in the header
full_commit(raw_header, raw_message, committer_name, nonce) ==
    LET found == rfind(raw_header, committer_name)
    IN  IF IsSome(found)
        THEN LET body == raw_commit(raw_header, raw_message, committer_name,
                                    nonce, Unwrap(found))
             IN  Some(commit_preface(body) \o body)
        ELSE None

\* a predicate that accepts either requirement alone
MatchPredicate_either(hash_hex, desired_hash_start, hidden_message) ==
    IF IsSome(hidden_message)
    THEN starts_with(hash_hex, desired_hash_start)
         \/ contains(hash_hex, Unwrap(hidden_message))
    ELSE starts_with(hash_hex, desired_hash_start)

\* the verdict on the lowercase hex digest
MatchPredicate(hash_hex, desired_hash_start, hidden_message) ==
    IF IsSome(hidden_message)
    THEN starts_with(hash_hex, desired_hash_start)
         /\ contains(hash_hex, Unwrap(hidden_message))
    ELSE starts_with(hash_hex, desired_hash_start)

(***************************************************************************)
(* State.                                                                  *)
(***************************************************************************)
VARIABLES
    pc,                \* position of main
    head,              \* the commit HEAD points to (the repository)
    error_reported,    \* main printed "Error: ..."
    hex_parameter,     \* Option<String>
    hidden_message,    \* Option<String>
    starting_nonce,
    num_threads,
    raw_header,        \* the template, built once by main
    raw_message,
    committer_name,
    sha1,              \* the hash function, as a table over the inputs that do not
                       \* hash to ColdDigest
    verdicts,          \* the search range's nonces that check_commit_with_nonce accepts
    atomics_created,   \* the two AtomicU64 exist
    number,            \* Nonce Allocator
    shared_result,     \* Result Register
    spawned,           \* handles.len()
    wpc,               \* position of each worker in thread_logic
    number_under_test, \* local of each worker
    i,                 \* loop variable of each worker, as its last for loop left it
    cas_ok,            \* workers whose compare_exchange returned Ok
    final_result,      \* Option: the value main loaded after the joins
    amended,           \* build_commit_with_nonce was called
    claimed,           \* history: the values fetch_add returned to each worker
    tested,            \* history: per worker and finished for loop, the first and last
                       \* nonce handed to check_commit_with_nonce
    cas_tried,         \* history: the nonces each worker handed to compare_exchange
    claims_after_set,  \* history: fetch_add calls of each worker on a set register
    trials_after_set,  \* history: nonces each worker tested in for loops it ended
                       \* on a set register
    call,              \* pure-function specifications: the arguments drawn
    ret,               \* pure-function specifications: the value returned
    runs,              \* successive-run specification: runs completed
    origin             \* successive-run specification: the commit before the first run

search_vars == <<pc, error_reported, hex_parameter, hidden_message, starting_nonce,
                 num_threads, raw_header, raw_message, committer_name, sha1,
                 verdicts, atomics_created, number, shared_result, spawned, wpc,
                 number_under_test, i, cas_ok, final_result, amended,
                 claimed, tested, cas_tried, claims_after_set, trials_after_set>>
history_vars == <<claimed, tested, cas_tried, claims_after_set, trials_after_set>>
pure_vars == <<call, ret>>
run_vars == <<runs, origin>>
vars == <<search_vars, head, pure_vars, run_vars>>

Workers == 1..MaxThreads

(***************************************************************************)
(* The repository: the fields of the HEAD commit that the program reads.   *)
(* utf8 = FALSE is a committer name that is not valid UTF-8, for which     *)
(* name() and raw_header() return None.                                    *)
(***************************************************************************)
STR_tree == <<"t", "r", "e", "e", " ", "T", NL>>
STR_author == <<"a", "u", "t", "h", "o", "r", " ">>
STR_committer == <<"c", "o", "m", "m", "i", "t", "t", "e", "r", " ">>
STR_when == <<" ", "0", NL>>

Ident(name, email) == name \o <<" ", "<">> \o email \o <<">">>

\* Commit::raw_header
commit_raw_header(c) ==
    IF c.utf8
    THEN Some(STR_tree
              \o STR_author \o Ident(c.author_name, c.author_email) \o STR_when
              \o STR_committer \o Ident(c.committer_name, c.committer_email) \o STR_when)
    ELSE None

\* Commit::committer().name()
commit_committer_name(c) == IF c.utf8 THEN Some(c.committer_name) ELSE None

\* Commit::message_raw
commit_message_raw(c) == Some(c.message)

\* SHA-1 of a byte string
ColdDigest == <<186>>
HitDigest == <<171>>
Sha1(table, bytes) == IF bytes \in DOMAIN table THEN table[bytes] ELSE ColdDigest

\* a check that takes a header without the committer name for a match
check_commit_with_nonce_unanchored(table, header, message, name, nonce, desired_hash_start, hidden) ==
    LET hashed == full_commit(header, message, name, nonce)
    IN  IF IsSome(hashed)
        THEN MatchPredicate(format_x_bytes(Sha1(table, Unwrap(hashed))),
                            desired_hash_start, hidden)
        ELSE TRUE

check_commit_with_nonce(table, header, message, name, nonce, desired_hash_start, hidden) ==
    LET hashed == full_commit(header, message, name, nonce)
    IN  IF IsSome(hashed)
        THEN MatchPredicate(format_x_bytes(Sha1(table, Unwrap(hashed))),
                            desired_hash_start, hidden)
        ELSE FALSE

\* the commit that commit.amend(.., Some(&new_committer), ..) leaves at HEAD
build_commit_with_nonce(c, nonce) ==
    LET committer_name_raw == unwrap_or(commit_committer_name(c), STR_Unknown)
        name == sanitize_committer_name(committer_name_raw)
    IN  [c EXCEPT !.committer_name = modified_committer(name, nonce), !.utf8 = TRUE]

\* a register that keeps the smaller nonce when it is already set
compare_exchange_min(value, current, new) ==
    IF value = current THEN <<new, TRUE>>
    ELSE <<IF new < value THEN new ELSE value, FALSE>>

\* AtomicU64::compare_exchange(current, new): <<the value stored afterwards, is_ok>>
compare_exchange(value, current, new) ==
    IF value = current THEN <<new, TRUE>> ELSE <<value, FALSE>>

(***************************************************************************)
(* Inputs of the search specification.                                     *)
(***************************************************************************)
HArgs == {None, Some(<<"a">>), Some(<<"g">>)}
MArgs == {None, Some(<<"b">>)}
NArgs == {None, Some(<<"0">>), Some(<<"z">>)}
JArgs == {None, Some(<<"x">>)} \cup {Some(format_dec(k)) : k \in 0..MaxThreads}

Flagged(flag, o) == IF IsSome(o) THEN <<flag, Unwrap(o)>> ELSE <<>>
ArgLists ==
    {<<<<"p">>>> \o Flagged(FLAG_h, h) \o Flagged(FLAG_m, m)
                 \o Flagged(FLAG_n, n) \o Flagged(FLAG_j, j) :
        h \in HArgs, m \in MArgs, n \in NArgs, j \in JArgs}

BaseCommit ==
    [utf8 |-> TRUE,
     author_name |-> <<"A", "l">>, author_email |-> <<"a", "@", "x">>,
     committer_name |-> <<"A", "l">>, committer_email |-> <<"a", "@", "x">>,
     message |-> <<"m", NL>>]
HeadCommits == {BaseCommit, [BaseCommit EXCEPT !.utf8 = FALSE]}

\* offsets from the starting nonce of the nonces whose commit may hash to HitDigest
HotOffsets == {0, BlockTrials, Stride + 2}

hex_value == unwrap_or(hex_parameter, <<>>)

\* the CommitTemplate main builds from the HEAD commit
template_name(c) ==
    sanitize_committer_name(unwrap_or(commit_committer_name(c), STR_Unknown))
template_header(c) ==
    sanitize_raw_header(unwrap_or(commit_raw_header(c), STR_NoRawBytes),
                        unwrap_or(commit_committer_name(c), STR_Unknown),
                        template_name(c))
template_message(c) == unwrap_or(commit_message_raw(c), STR_NoRawBytes)

(***************************************************************************)
(* main, up to the spawning of the workers.                                *)
(***************************************************************************)
\* a main that prints the error and goes on
after_config_error_goes_on == "setup"

\* where main is after  if hex_parameter.is_none() && hidden_message.is_none() { ..; return; }
after_config_error == "returned"

main_parse(args, cpus) ==
    /\ pc = "start"
    /\ LET hex == filter_valid_hex(get_argument_value(args, FLAG_h))
           hidden == filter_valid_hex(get_argument_value(args, FLAG_m))
           n_text == get_argument_value(args, FLAG_n)
           n_value == IF IsSome(n_text) THEN from_str_radix(Unwrap(n_text), 16)
                      ELSE Some(DefaultStartingNonce)
           j_text == get_argument_value(args, FLAG_j)
           j_value == IF IsSome(j_text)
                      THEN unwrap_or(from_str_radix(Unwrap(j_text), 10), cpus)
                      ELSE cpus
       IN  IF ~IsSome(n_value)
           THEN /\ error_reported' = TRUE
                /\ pc' = "exit"
                /\ UNCHANGED <<hex_parameter, hidden_message, starting_nonce, num_threads>>
           ELSE IF ~IsSome(hex) /\ ~IsSome(hidden)
           THEN /\ error_reported' = TRUE
                /\ pc' = after_config_error
                /\ UNCHANGED <<hex_parameter, hidden_message, starting_nonce, num_threads>>
           ELSE /\ pc' = "setup"
                /\ hex_parameter' = hex
                /\ hidden_message' = hidden
                /\ starting_nonce' = Unwrap(n_value)
                /\ num_threads' = j_value
                /\ UNCHANGED error_reported
    /\ UNCHANGED <<raw_header, raw_message, committer_name, sha1, verdicts,
                   atomics_created, number, shared_result, spawned, wpc,
                   number_under_test, i, cas_ok, final_result, amended, head,
                   history_vars, pure_vars, run_vars>>

\* check_commit_with_nonce is a pure function and every argument but the nonce is
\* fixed once the template is built: its verdicts on the nonces that the capped
\* allocator can hand out are tabulated here and looked up by the workers.
main_setup(hits) ==
    /\ pc = "setup"
    /\ LET header == template_header(head)
           message == template_message(head)
           name == template_name(head)
           hashed == {full_commit(header, message, name, starting_nonce + o) : o \in hits}
           table == [bytes \in {Unwrap(h) : h \in {x \in hashed : IsSome(x)}} |-> HitDigest]
       IN  /\ raw_header' = header
           /\ raw_message' = message
           /\ committer_name' = name
           /\ sha1' = table
           /\ verdicts' = {n \in starting_nonce..(starting_nonce + MaxClaims * Stride - 1) :
                              check_commit_with_nonce(table, header, message, name, n,
                                                      hex_value, hidden_message)}
    /\ number' = starting_nonce
    /\ shared_result' = EMPTY
    /\ atomics_created' = TRUE
    /\ pc' = "spawn"
    /\ UNCHANGED <<error_reported, hex_parameter, hidden_message, starting_nonce,
                   num_threads, spawned, wpc, number_under_test, i, cas_ok,
                   final_result, amended, head, history_vars, pure_vars, run_vars>>

main_spawn ==
    /\ pc = "spawn"
    /\ spawned < num_threads
    /\ spawned' = spawned + 1
    /\ wpc' = [wpc EXCEPT ![spawned + 1] = "loop"]
    /\ UNCHANGED <<pc, error_reported, hex_parameter, hidden_message, starting_nonce,
                   num_threads, raw_header, raw_message, committer_name, sha1,
                   verdicts, atomics_created, number, shared_result,
                   number_under_test, i,
                   cas_ok, final_result, amended, head, history_vars, pure_vars,
                   run_vars>>

(***************************************************************************)
(* thread_logic: one action per atomic operation of a worker.              *)
(***************************************************************************)
main_unchanged == <<pc, error_reported, hex_parameter, hidden_message, starting_nonce,
                    num_threads, raw_header, raw_message, committer_name, sha1,
                    verdicts, atomics_created, spawned, final_result, amended, head,
                    pure_vars, run_vars>>

\* a load that never sees the register set
register_is_set_never(value) == FALSE

\* shared_result.load(..) != 0
register_is_set(value) == value # EMPTY

\* shared_result.load(): return when the register is set
thread_logic_load(w) ==
    /\ wpc[w] = "loop"
    /\ wpc' = [wpc EXCEPT ![w] = IF register_is_set(shared_result) THEN "returned"
                                 ELSE "claim"]
    /\ UNCHANGED <<number, shared_result, number_under_test, i, cas_ok, history_vars,
                   main_unchanged>>

\* a fetch_add that does not advance the counter
fetch_add_stuck(value, val) == <<value, value>>

\* AtomicU64::fetch_add(val): <<the previous value, the value stored afterwards>>
fetch_add(value, val) == <<value, value + val>>

\* number.fetch_add(100)
thread_logic_fetch_add(w) ==
    /\ wpc[w] = "claim"
    /\ number < starting_nonce + MaxClaims * Stride
    /\ LET claim == fetch_add(number, Stride)
       IN  /\ number_under_test' = [number_under_test EXCEPT ![w] = claim[1]]
           /\ number' = claim[2]
           /\ claimed' = [claimed EXCEPT ![w] = Append(@, claim[1])]
    /\ claims_after_set' = [claims_after_set EXCEPT
                                ![w] = IF shared_result # EMPTY THEN @ + 1 ELSE @]
    /\ wpc' = [wpc EXCEPT ![w] = "for"]
    /\ UNCHANGED <<shared_result, i, cas_ok, tested, cas_tried, trials_after_set,
                   main_unchanged>>

\* a worker that publishes the start of its block
published_nonce_block_start(block, k) == block

\* the value handed to compare_exchange
published_nonce(block, k) == block + k

\* the value of i at which for i in 0..99 over the block ends, starting from k:
\* the first i whose nonce is accepted, or the last i of the range
RECURSIVE last_trial(_, _, _)
last_trial(accepted, block, k) ==
    IF k + 1 >= BlockTrials \/ block + k \in accepted THEN k
    ELSE last_trial(accepted, block, k + 1)

\* a worker that goes on with the loop after its compare_exchange
after_cas_goes_on == "loop"

\* where a worker is after  let _ = shared_result.compare_exchange(..); return;
after_cas == "returned"

\* for i in 0..99 { .. } over one claimed block.  The loop reads the template and its
\* own locals only, until the compare_exchange that ends it, so it is one action.
thread_logic_for(w) ==
    /\ wpc[w] = "for"
    /\ \E last \in {last_trial(verdicts, number_under_test[w], 0)} :
           /\ i' = [i EXCEPT ![w] = last]
           /\ tested' = [tested EXCEPT
                             ![w] = Append(@, <<number_under_test[w],
                                                number_under_test[w] + last>>)]
           /\ trials_after_set' = [trials_after_set EXCEPT
                                       ![w] = IF shared_result # EMPTY THEN @ + last + 1
                                              ELSE @]
           /\ IF number_under_test[w] + last \in verdicts
              THEN LET cas == compare_exchange(shared_result, EMPTY,
                                  published_nonce(number_under_test[w], last))
                   IN  /\ shared_result' = cas[1]
                       /\ cas_ok' = IF cas[2] THEN cas_ok \cup {w} ELSE cas_ok
                       /\ cas_tried' = [cas_tried EXCEPT
                                            ![w] = Append(@, published_nonce(
                                                       number_under_test[w], last))]
                       /\ wpc' = [wpc EXCEPT ![w] = after_cas]
              ELSE /\ wpc' = [wpc EXCEPT ![w] = "loop"]
                   /\ UNCHANGED <<shared_result, cas_ok, cas_tried>>
    /\ UNCHANGED <<number, number_under_test, claimed, claims_after_set, main_unchanged>>

(***************************************************************************)
(* main, after the spawning: join every handle, load the register, amend.  *)
(***************************************************************************)
main_finish ==
    /\ pc = "spawn"
    /\ spawned = num_threads
    /\ \A w \in 1..num_threads : wpc[w] = "returned"
    /\ final_result' = Some(shared_result)
    /\ head' = build_commit_with_nonce(head, shared_result)
    /\ amended' = TRUE
    /\ pc' = "done"
    /\ UNCHANGED <<error_reported, hex_parameter, hidden_message, starting_nonce,
                   num_threads, raw_header, raw_message, committer_name, sha1,
                   verdicts, atomics_created, number, shared_result, spawned, wpc,
                   number_under_test, i, cas_ok, history_vars, pure_vars, run_vars>>

\* the state before main has done anything
SearchIdle ==
    /\ pc = "start"
    /\ error_reported = FALSE
    /\ hex_parameter = None
    /\ hidden_message = None
    /\ starting_nonce = 0
    /\ num_threads = 0
    /\ raw_header = <<>>
    /\ raw_message = <<>>
    /\ committer_name = <<>>
    /\ sha1 = <<>>
    /\ verdicts = {}
    /\ atomics_created = FALSE
    /\ number = 0
    /\ shared_result = EMPTY
    /\ spawned = 0
    /\ wpc = [w \in Workers |-> "unspawned"]
    /\ number_under_test = [w \in Workers |-> 0]
    /\ i = [w \in Workers |-> 0]
    /\ cas_ok = {}
    /\ final_result = None
    /\ amended = FALSE
    /\ claimed = [w \in Workers |-> <<>>]
    /\ tested = [w \in Workers |-> <<>>]
    /\ cas_tried = [w \in Workers |-> <<>>]
    /\ claims_after_set = [w \in Workers |-> 0]
    /\ trials_after_set = [w \in Workers |-> 0]

NoCall == [op |-> "none"]

Init ==
    /\ SearchIdle
    /\ head \in HeadCommits
    /\ call = NoCall
    /\ ret = None
    /\ runs = 0
    /\ origin = BaseCommit

Next ==
    \/ \E args \in ArgLists, cpus \in 1..MaxThreads : main_parse(args, cpus)
    \/ \E hits \in SUBSET HotOffsets : main_setup(hits)
    \/ main_spawn
    \/ \E w \in Workers : thread_logic_load(w)
    \/ \E w \in Workers : thread_logic_fetch_add(w)
    \/ \E w \in Workers : thread_logic_for(w)
    \/ main_finish

Spec == Init /\ [][Next]_vars

(***************************************************************************)
(* The pure functions, each applied to arguments drawn from bounded sets   *)
(* (specification SpecPure).                                               *)
(***************************************************************************)
NameAlphabet == {"a", "F", "_", "l"}
STR_Alice == <<"A", "l", "i", "c", "e">>
TaggedAlice == <<"1", "a", "2", "b", "_">> \o STR_Alice

Texts(alphabet, maxlen) == UNION {[1..n -> alphabet] : n \in 0..maxlen}

SanitizeCalls ==
    {[op |-> "sanitize", name |-> x] :
        x \in Texts(NameAlphabet, MaxNameLen) \cup {STR_Alice, TaggedAlice}}

DigestByteValues == {10, 171, 186, 187}
PrefixArgs == {None, Some(<<"a">>), Some(<<"A">>), Some(<<"b">>), Some(<<"g">>),
               Some(<<"a", "b">>), Some(<<"a", "B">>), Some(<<"0">>)}
HiddenArgs == {None, Some(<<"b">>), Some(<<"B">>), Some(<<"0", "a">>), Some(<<"z">>)}

PredicateCalls ==
    {[op |-> "predicate", digest |-> d, h |-> h, m |-> m] :
        d \in [1..DigestBytes -> DigestByteValues], h \in PrefixArgs, m \in HiddenArgs}

Message(len) == [k \in 1..len |-> "m"]
MessageLengths == {0, 2, 50, 51}
EncoderCommits ==
    {BaseCommit,
     [BaseCommit EXCEPT !.author_name = <<"B", "o">>, !.committer_name = <<"a">>]}
EncoderIdentities == {<<"A", "l">>, <<"a">>, <<"Z">>, <<>>}

EncoderCalls ==
    {[op |-> "encoder", header |-> Unwrap(commit_raw_header(c)), message |-> Message(len),
      identity |-> id, nonce |-> n] :
        c \in EncoderCommits, len \in MessageLengths, id \in EncoderIdentities,
        n \in 0..MaxNonceDrawn}

\* sanitize_committer_name applied once and twice
apply_sanitize ==
    /\ call.op = "sanitize"
    /\ ret = None
    /\ ret' = Some([once |-> sanitize_committer_name(call.name),
                    twice |-> sanitize_committer_name(sanitize_committer_name(call.name))])
    /\ UNCHANGED <<call, search_vars, head, run_vars>>

\* the Condition as main builds it from -h and -m, then the Match Predicate on
\* the hex rendering of a digest
apply_predicate ==
    /\ call.op = "predicate"
    /\ ret = None
    /\ LET hex == filter_valid_hex(call.h)
           hidden == filter_valid_hex(call.m)
       IN  ret' = Some([hex_parameter |-> hex,
                        hidden_message |-> hidden,
                        config_error |-> ~IsSome(hex) /\ ~IsSome(hidden),
                        hash_hex |-> format_x_bytes(call.digest),
                        verdict |-> MatchPredicate(format_x_bytes(call.digest),
                                                   unwrap_or(hex, <<>>), hidden)])
    /\ UNCHANGED <<call, search_vars, head, run_vars>>

\* the Commit Encoder
apply_encoder ==
    /\ call.op = "encoder"
    /\ ret = None
    /\ ret' = Some(full_commit(call.header, call.message, call.identity, call.nonce))
    /\ UNCHANGED <<call, search_vars, head, run_vars>>

InitPure ==
    /\ SearchIdle
    /\ head = BaseCommit
    /\ call \in SanitizeCalls \cup PredicateCalls \cup EncoderCalls
    /\ ret = None
    /\ runs = 0
    /\ origin = BaseCommit

NextPure ==
    \/ apply_sanitize
    \/ apply_predicate
    \/ apply_encoder

SpecPure == InitPure /\ [][NextPure]_vars

(***************************************************************************)
(* Successive runs of the tool on one repository (specification SpecRuns): *)
(* each run builds its template from HEAD and amends HEAD with the nonce   *)
(* main loaded from the register.  A nonce other than 0 is loaded only     *)
(* when a worker found a match, which needs the anchor in the template.    *)
(***************************************************************************)
RunNames == {<<"A", "l">>, <<"1", "a", "_", "A", "l">>, <<"a", "_", "F", "_", "l">>,
             <<"F", "_">>, <<"a">>}
RunCommits ==
    {[BaseCommit EXCEPT !.committer_name = x, !.utf8 = u] :
        x \in RunNames, u \in BOOLEAN}

tool_run(nonce) ==
    /\ runs < MaxRuns
    /\ nonce = EMPTY \/ IsSome(rfind(template_header(head), template_name(head)))
    /\ raw_header' = template_header(head)
    /\ raw_message' = template_message(head)
    /\ committer_name' = template_name(head)
    /\ final_result' = Some(nonce)
    /\ head' = build_commit_with_nonce(head, nonce)
    /\ amended' = TRUE
    /\ runs' = runs + 1
    /\ UNCHANGED <<pc, error_reported, hex_parameter, hidden_message, starting_nonce,
                   num_threads, sha1, verdicts, atomics_created, number, shared_result,
                   spawned, wpc, number_under_test, i, cas_ok, history_vars, origin,
                   pure_vars>>

InitRuns ==
    /\ SearchIdle
    /\ head \in RunCommits
    /\ origin = head
    /\ runs = 0
    /\ call = NoCall
    /\ ret = None

NextRuns == \E nonce \in 0..MaxNonceDrawn : tool_run(nonce)

SpecRuns == InitRuns /\ [][NextRuns]_vars

(***************************************************************************)
(* Properties of the search (specification Spec).                          *)
(***************************************************************************)
Matches(n) ==
    check_commit_with_nonce(sha1, raw_header, raw_message, committer_name, n,
                            hex_value, hidden_message)

AllWorkersStopped ==
    /\ pc = "spawn"
    /\ spawned = num_threads
    /\ \A w \in 1..num_threads : wpc[w] = "returned"

\* the nonces a search capped at MaxClaims blocks can be handed
SearchRange == starting_nonce..(starting_nonce + MaxClaims * Stride - 1)

\* C1: once a compare-and-set of some worker has succeeded, the Result
\* Register never changes again and no other compare-and-set succeeds.
C1_RegisterSetOnce ==
    [][cas_ok # {} => (shared_result' = shared_result /\ cas_ok' = cas_ok)]_vars

\* C2: a non-empty Result Register holds a nonce for which
\* check_commit_with_nonce returns true on the shared template and condition.
C2_RegisterHoldsMatch == shared_result # EMPTY => Matches(shared_result)

C2_Witness == num_threads >= 2 /\ shared_result # EMPTY /\ Cardinality(cas_ok) = 1

\* C3: with exactly one worker the search returns the smallest nonce >= the
\* starting nonce that matches, as a brute-force scan s, s+1, .. would.
C3_SingleWorkerSmallest ==
    (pc = "done" /\ num_threads = 1)
        => final_result = Some(SetMin({n \in SearchRange : Matches(n)}))

\* C4: when every worker of a search with at least one worker has stopped,
\* the Result Register is non-empty and holds a matching nonce.
C4_StoppedWithWinner ==
    (AllWorkersStopped /\ num_threads >= 1)
        => (shared_result # EMPTY /\ Matches(shared_result))

\* C10: after a configuration error main has stopped, no worker was spawned,
\* the allocator and the register were never created and HEAD is as it was.
C10_ConfigErrorBeforeSearch ==
    error_reported =>
        /\ pc \in {"exit", "returned"}
        /\ spawned = 0
        /\ \A w \in Workers : wpc[w] = "unspawned"
        /\ ~atomics_created
        /\ ~amended
        /\ head \in HeadCommits

C10_Witness == error_reported /\ pc = "returned"

\* C11: first-match-wins, not lowest-nonce-wins: a worker that finds a match
\* while the register is empty publishes its own nonce, whatever the other
\* workers' blocks hold; a register that is not empty never changes; main
\* loads the register's value after the joins.
C11_FirstPublisherWins ==
    /\ [][\A w \in Workers :
             (shared_result = EMPTY /\ cas_tried'[w] # cas_tried[w])
                 => shared_result' = cas_tried'[w][Len(cas_tried'[w])]]_vars
    /\ [][shared_result # EMPTY => shared_result' = shared_result]_vars
    /\ [](pc = "done" => final_result = Some(shared_result))

\* two workers found matching nonces in their blocks and the larger one is the winner
C11_LargerWins ==
    /\ pc = "done"
    /\ \E a, b \in Workers :
           /\ cas_tried[a] # <<>> /\ cas_tried[b] # <<>>
           /\ EMPTY < cas_tried[a][1] /\ cas_tried[a][1] < cas_tried[b][1]
           /\ final_result = Some(cas_tried[b][1])

\* the same two nonces, found by two workers, and the smaller one is the winner
L11_SmallerWins ==
    /\ pc = "done"
    /\ \E a, b \in Workers :
           /\ cas_tried[a] # <<>> /\ cas_tried[b] # <<>>
           /\ EMPTY < cas_tried[a][1] /\ cas_tried[a][1] < cas_tried[b][1]
           /\ final_result = Some(cas_tried[a][1])

\* the fetch_add calls made so far and the for loops finished so far, as
\* <<worker, index in the worker's history>>
ClaimsMade == {c \in Workers \X (1..MaxClaims) : c[2] <= Len(claimed[c[1]])}
LoopsDone == {c \in Workers \X (1..MaxClaims) : c[2] <= Len(tested[c[1]])}
BlockOf(c) == claimed[c[1]][c[2]]
FirstTested(c) == tested[c[1]][c[2]][1]
LastTested(c) == tested[c[1]][c[2]][2]

\* C12: every claim is one fetch-and-add of 100 on the allocator that returns
\* the value before it; the blocks [v, v+100) claimed are pairwise disjoint and
\* no nonce is tested in two for loops, of one worker or of two.
C12_BlocksDisjoint ==
    /\ [](/\ \A a, b \in ClaimsMade :
                a # b => (BlockOf(a) + 100 <= BlockOf(b) \/ BlockOf(b) + 100 <= BlockOf(a))
          /\ \A a \in LoopsDone :
                BlockOf(a) <= FirstTested(a) /\ LastTested(a) < BlockOf(a) + 100
          /\ \A a, b \in LoopsDone :
                a # b => (LastTested(a) < FirstTested(b) \/ LastTested(b) < FirstTested(a)))
    /\ [][\A w \in Workers :
             claimed'[w] # claimed[w]
                 => (claimed'[w] = Append(claimed[w], number) /\ number' = number + 100)]_vars

\* two workers have each tested a block of their own
C12_Witness ==
    \E a, b \in LoopsDone : a[1] # b[1] /\ BlockOf(a) # BlockOf(b)

C14_StopAfterRegisterSet ==
    /\ [](\A w \in Workers : claims_after_set[w] <= 1 /\ trials_after_set[w] <= 99)
    /\ [][\A w \in Workers :
             /\ (wpc[w] = "loop" /\ wpc'[w] # "loop")
                    => wpc'[w] = (IF shared_result # EMPTY THEN "returned" ELSE "claim")
             /\ (wpc[w] = "for" /\ wpc'[w] = "returned")
                    => cas_tried'[w] # cas_tried[w]]_vars

\* a worker that claimed a block and tested its 99 nonces after the register
\* was set, and then stopped
C14_Witness ==
    \E w \in Workers :
        claims_after_set[w] = 1 /\ trials_after_set[w] = 99 /\ wpc[w] = "returned"

\* C15: a worker calls compare_exchange at most once, with the nonce it has
\* just found matching, and has returned after it; a compare_exchange that
\* fails leaves the register as it was.
C15_OneCasPerWorker ==
    /\ [](\A w \in Workers :
             /\ Len(cas_tried[w]) <= 1
             /\ Len(cas_tried[w]) = 1
                    => /\ wpc[w] = "returned"
                       /\ Matches(cas_tried[w][1])
                       /\ cas_tried[w][1] = tested[w][Len(tested[w])][2]
                       /\ Len(claimed[w]) = Len(tested[w]))
    /\ [][\A w \in Workers :
             (cas_tried'[w] # cas_tried[w] /\ w \notin cas_ok')
                 => (shared_result' = shared_result /\ number' = number)]_vars

\* a worker whose compare_exchange failed, beside the worker that won
C15_Witness ==
    \E w \in Workers :
        /\ cas_tried[w] # <<>>
        /\ w \notin cas_ok
        /\ cas_ok # {}
        /\ shared_result # cas_tried[w][1]

\* the anchor: the committer name occurs in the template's header
AnchorFound == Occurrences(raw_header, committer_name) # {}

\* C17: when the committer name does not occur in the header no worker calls
\* compare_exchange or stops, the register stays empty, and every for loop
\* runs over all of its nonces.
C17_MissingAnchorNeverMatches ==
    (atomics_created /\ ~AnchorFound) =>
        /\ shared_result = EMPTY
        /\ cas_ok = {}
        /\ \A w \in Workers : cas_tried[w] = <<>> /\ wpc[w] # "returned"
        /\ \A a \in LoopsDone : LastTested(a) = FirstTested(a) + BlockTrials - 1

\* a worker that went through two blocks without the anchor
C17_Witness ==
    /\ atomics_created
    /\ ~AnchorFound
    /\ \E w \in Workers : Len(tested[w]) = 2

\* C18: after a compare_exchange of a worker has succeeded the register is
\* not empty.
C18_PublishedIsNonEmpty == cas_ok # {} => shared_result # EMPTY

\* C19: the commit is amended only when the register main loaded is not
\* empty, with that value, which matches.
C19_AmendOnlyWithWinner ==
    amended =>
        /\ final_result = Some(shared_result)
        /\ shared_result # EMPTY
        /\ Matches(shared_result)

(***************************************************************************)
(* Properties of the pure functions (specification SpecPure).              *)
(***************************************************************************)
Returned(op) == call.op = op /\ IsSome(ret)

\* C5: sanitizing an already sanitized committer name returns it unchanged,
\* and "1a2b_Alice" sanitizes to "Alice".
C5_SanitizeIdempotent ==
    Returned("sanitize") =>
        /\ Unwrap(ret).twice = Unwrap(ret).once
        /\ (call.name = TaggedAlice => Unwrap(ret).once = STR_Alice)

\* str::to_lowercase on the characters of a hexadecimal string
LowerChar(c) ==
    CASE c = "A" -> "a" [] c = "B" -> "b" [] c = "C" -> "c"
      [] c = "D" -> "d" [] c = "E" -> "e" [] c = "F" -> "f" [] OTHER -> c
to_lowercase(s) == [k \in 1..Len(s) |-> LowerChar(s[k])]

\* C7: for an accepted prefix p and no substring requirement, the Match
\* Predicate holds exactly when the lowercase hex digest starts with lowercase(p).
C7_PrefixCaseInsensitive ==
    (Returned("predicate") /\ IsSome(Unwrap(ret).hex_parameter)
        /\ ~IsSome(Unwrap(ret).hidden_message))
    => (Unwrap(ret).verdict
            <=> starts_with(Unwrap(ret).hash_hex,
                            to_lowercase(Unwrap(Unwrap(ret).hex_parameter))))

\* C8: for every digest and Condition the Match Predicate is true exactly when
\* (no prefix is required or the hex digest starts with it) and (no substring
\* is required or the hex digest contains it at some position).
C8_PrefixAndSubstring ==
    (Returned("predicate") /\ ~Unwrap(ret).config_error)
    => LET r == Unwrap(ret)
           prefix_ok == ~IsSome(r.hex_parameter)
                        \/ SubSeq(r.hash_hex, 1, Len(Unwrap(r.hex_parameter)))
                               = Unwrap(r.hex_parameter)
           substring_ok == ~IsSome(r.hidden_message)
                           \/ \E p \in 1..Len(r.hash_hex), q \in 1..Len(r.hash_hex) :
                                  SubSeq(r.hash_hex, p, q) = Unwrap(r.hidden_message)
       IN  r.verdict <=> (prefix_ok /\ substring_ok)

\* a substring-only Condition matched by a digest that holds the substring
\* past its first position only
C8_Witness ==
    /\ Returned("predicate")
    /\ ~IsSome(Unwrap(ret).hex_parameter)
    /\ IsSome(Unwrap(ret).hidden_message)
    /\ Unwrap(ret).verdict
    /\ ~starts_with(Unwrap(ret).hash_hex, Unwrap(Unwrap(ret).hidden_message))

\* index of the first NUL of a byte string
FirstNul(bytes) == SetMin({k \in 1..Len(bytes) : bytes[k] = NUL})

\* C9: when the anchor is found the Encoder's output is "commit ", the decimal
\* byte length of the body, one NUL, then the body (rebuilt header + message).
C9_FramingDeclaresBodyLength ==
    (Returned("encoder") /\ IsSome(Unwrap(ret)))
    => LET out == Unwrap(Unwrap(ret))
           k == FirstNul(out)
           declared == SubSeq(out, Len(STR_commit) + 1, k - 1)
           body == SubSeq(out, k + 1, Len(out))
       IN  /\ starts_with(out, STR_commit)
           /\ declared # <<>>
           /\ \A d \in 1..Len(declared) : declared[d] \in Range(DecDigits)
           /\ DigitsValue(declared, 10) = Len(body)
           /\ body = new_commit_header(call.header, call.identity, call.nonce,
                                       Unwrap(rfind(call.header, call.identity)))
                     \o call.message

\* a body of 100 bytes or more: the declared length has three digits
C9_Witness ==
    /\ Returned("encoder")
    /\ IsSome(Unwrap(ret))
    /\ Len(Unwrap(Unwrap(ret))) >= 100 + Len(STR_commit) + 4

\* C16: when the identity occurs in the header the Encoder's body is the
\* header up to the last occurrence, the nonce in lowercase hexadecimal without
\* padding, "_", the identity, the rest of the header, a newline, the message.
C16_LastOccurrenceReplaced ==
    (Returned("encoder") /\ Occurrences(call.header, call.identity) # {})
    => /\ IsSome(Unwrap(ret))
       /\ LET out == Unwrap(Unwrap(ret))
              body == SubSeq(out, FirstNul(out) + 1, Len(out))
              p == SetMax(Occurrences(call.header, call.identity))
              before == SubSeq(call.header, 1, p)
              after == SubSeq(call.header, p + Len(call.identity) + 1, Len(call.header))
              digits == Len(body) - Len(call.header) - Len(call.message) - 2
              hex == SubSeq(body, p + 1, p + digits)
          IN  /\ digits >= 1
              /\ body = before \o hex \o <<"_">> \o call.identity \o after
                        \o <<NL>> \o call.message
              /\ \A d \in 1..digits : hex[d] \in Range(LowerHexDigits)
              /\ DigitsValue(hex, 16) = call.nonce
              /\ digits = 1 \/ hex[1] # "0"

\* an identity that occurs more than once, a nonce of two hexadecimal digits
C16_Witness ==
    /\ Returned("encoder")
    /\ Cardinality(Occurrences(call.header, call.identity)) >= 2
    /\ call.identity # <<>>
    /\ call.nonce >= 16

(***************************************************************************)
(* Properties of successive runs (specification SpecRuns).                 *)
(***************************************************************************)
\* the committer name of a commit as the program reads it
NameRead(c) == unwrap_or(commit_committer_name(c), STR_Unknown)

\* C6: after any number of runs the committer name is hex(nonce) + "_" + the
\* sanitized original name, with the tag of the latest run only, and the
\* header used as template contains the sanitized name.
C6_TagsDoNotCompound ==
    runs >= 1 =>
        /\ head.committer_name
               = format_x(Unwrap(final_result)) \o <<"_">>
                 \o sanitize_committer_name(NameRead(origin))
        /\ committer_name = sanitize_committer_name(NameRead(origin))
        /\ contains(raw_header, committer_name)

\* the part of C6 that is about the committer name alone
L6_OneTagOnly ==
    runs >= 1 =>
        head.committer_name
            = format_x(Unwrap(final_result)) \o <<"_">>
              \o sanitize_committer_name(NameRead(origin))

\* C20: the header the workers hash for the nonce main loaded is the header of
\* the amended commit, and the amendment changes the committer name only.
C20_HashedHeaderIsAmendedHeader ==
    (runs >= 1 /\ IsSome(rfind(raw_header, committer_name)))
    => /\ new_commit_header(raw_header, committer_name, Unwrap(final_result),
                            Unwrap(rfind(raw_header, committer_name)))
              = Unwrap(commit_raw_header(head)) \o <<NL>>
       /\ [head EXCEPT !.committer_name = <<>>, !.utf8 = TRUE]
              = [origin EXCEPT !.committer_name = <<>>, !.utf8 = TRUE]

====
